---- MODULE Spec2Model ----
(***************************************************************************)
(* State-machine model of the EELS chain backend of eth-tester             *)
(* (src/eth_tester/backends/eels/main.py, class EELSBackend).              *)
(*                                                                         *)
(* Python objects that the code shares by reference (the State objects     *)
(* held by chain.state and by the values of _state_history) live in an     *)
(* explicit heap, so that an assignment such as                            *)
(*     self.chain.state = self._state_history[block_number]                *)
(* aliases two names to one object exactly as it does in the code.         *)
(*                                                                         *)
(* The execution-specs library (self.fork, self._fork_module) is the      *)
(* external collaborator of the backend: check_transaction,                *)
(* process_transaction, process_message and state_transition are modelled  *)
(* by what they do to balances and nonces of plain value transfers.        *)
(***************************************************************************)
EXTENDS Integers, Sequences, FiniteSets, TLC

\* ------------------------------------------------------------------ bounds
MaxHead == 2            \* mining is offered while head.number < MaxHead
MaxPendingTxs == 2      \* transactions buffered in one pending block
MaxMine == 2            \* largest n of mine_blocks(n)
MaxClock == 2           \* the wall clock runs over 1..MaxClock
MaxPendingWds == 1      \* withdrawals buffered in one pending block
MaxAux == 1             \* calls, in one run, other than send, mine, snapshot, revert
MaxInstanceCalls == 4   \* calls, in one run, on the two instances together
InitialBalance == 4     \* stands for U256(10**18) of the default accounts
RecentBlocks == 2       \* blocks whose parent hashes get_last_256_block_hashes lists
BlockGasLimit == 3      \* stands for GENESIS_GAS_LIMIT, in units of TransferGas

\* ------------------------------------------------------- values and hashes
None == -1                      \* Python's None where a number is expected
LATEST == -2                    \* the block number argument "latest"
ZERO_HASH32 == <<>>             \* eth_tester.constants.ZERO_HASH32
keccak256(x) == <<x>>           \* a collision-free hash: injective, never ZERO

DefaultAccounts == {"a1", "a2"} \* addresses of get_default_account_keys()
\* The addresses the modelled contract creations create.
ContractAddresses == {"c1", "c2"}
Address == DefaultAccounts \cup {"a3"} \cup ContractAddresses

NoAddress == ""                 \* None, or b"", where an address is expected
CREATE == NoAddress             \* tx.to of a contract creation: Bytes0(b"")

\* compute_contract_address(sender, nonce), for the creations of the model:
\* one address for each pair of sender and nonce.
compute_contract_address(sender, nonce) ==
    CASE sender = "a1" /\ nonce = 0 -> "c1"
      [] sender = "a2" /\ nonce = 0 -> "c2"

\* fork.Account as stored in the state's main trie; an address that is not
\* in the trie reads as EMPTY_ACCOUNT (fork.get_account).
EMPTY_ACCOUNT == [exists |-> FALSE, nonce |-> 0, balance |-> 0, code |-> ""]

_get_default_account_state(balance) ==
    [exists |-> TRUE, nonce |-> 0, balance |-> balance, code |-> ""]

state_root(state) == keccak256(state)
root(trie) == keccak256(trie)
compute_header_hash(header) == keccak256(header)

Min2(a, b) == IF a < b THEN a ELSE b

Put(m, k, v) == [x \in DOMAIN m \cup {k} |-> IF x = k THEN v ELSE m[x]]

\* ------------------------------------------------------------ transactions
\* A transaction is a plain value transfer, or the creation of a contract
\* when its `to` is CREATE; blob_gas is its total blob gas in units of one
\* blob (GAS_PER_BLOB).
MAX_BLOB_GAS_PER_BLOCK == 6
BlobCount == 7                  \* blobs carried by the modelled blob transaction
TransferGas == 1                \* the gas a plain value transfer uses, the unit of gas
TxFee(tx) == 1                  \* what a transfer is charged for gas, in units of balance

MakeTx(sender, nonce, to, value, blob_gas) ==
    [sender |-> sender, nonce |-> nonce, to |-> to, value |-> value,
     blob_gas |-> blob_gas, gas |-> TransferGas]

_get_tx_hash(tx) == keccak256(tx)

calculate_total_blob_gas(tx) == tx.blob_gas

\* fork.check_transaction(state, tx, gas_available, ...): the gas limit of
\* the transaction against the gas available, the sender's nonce and
\* balance; failing raises InvalidBlock, an EthereumException.
check_transaction(state, tx, gas_available) ==
    /\ tx.gas <= gas_available
    /\ state[tx.sender].nonce = tx.nonce
    /\ state[tx.sender].balance >= TxFee(tx) + tx.value

\* fork.process_transaction(env, tx) on env.state, changed in place: the
\* nonce is incremented, fee and value are debited, the value is credited.
\* A creation credits the account at the address it creates, which gets
\* nonce 1 and the code the creation deploys.
Target(tx) ==
    IF tx.to = CREATE THEN compute_contract_address(tx.sender, tx.nonce) ELSE tx.to

Underflows(state, tx) == state[tx.sender].balance < TxFee(tx) + tx.value

\* A process_transaction that debits the sender and leaves its nonce.
process_transaction_keeps_nonce(state, tx) ==
    LET s1 == [state EXCEPT ![tx.sender] =
                  [@ EXCEPT !.exists = TRUE,
                            !.balance = @ - TxFee(tx) - tx.value]]
    IN  [s1 EXCEPT ![Target(tx)] =
            [@ EXCEPT !.exists = TRUE, !.balance = @ + tx.value,
                      !.nonce = IF tx.to = CREATE THEN 1 ELSE @,
                      !.code = IF tx.to = CREATE THEN "code" ELSE @]]

process_transaction(state, tx) ==
    LET s1 == [state EXCEPT ![tx.sender] =
                  [@ EXCEPT !.exists = TRUE, !.nonce = @ + 1,
                            !.balance = @ - TxFee(tx) - tx.value]]
    IN  [s1 EXCEPT ![Target(tx)] =
            [@ EXCEPT !.exists = TRUE, !.balance = @ + tx.value,
                      !.nonce = IF tx.to = CREATE THEN 1 ELSE @,
                      !.code = IF tx.to = CREATE THEN "code" ELSE @]]

\* interpreter.process_message(message, env): the value is moved in
\* env.state, in place; no nonce change and no fee.
process_message(state, tx) ==
    LET s1 == [state EXCEPT ![tx.sender].balance = @ - tx.value]
    IN  [s1 EXCEPT ![tx.to] =
            [@ EXCEPT !.exists = TRUE, !.balance = @ + tx.value]]

\* fork.process_withdrawal(state, wd), then the removal of an account left
\* empty by it.
process_withdrawal(state, wd) ==
    LET s1 == [state EXCEPT ![wd.address] =
                  [@ EXCEPT !.exists = TRUE, !.balance = @ + wd.amount]]
    IN  IF s1[wd.address].nonce = 0 /\ s1[wd.address].balance = 0
        THEN [s1 EXCEPT ![wd.address] = EMPTY_ACCOUNT]
        ELSE s1

RECURSIVE process_withdrawals(_, _, _)
process_withdrawals(state, wds, i) ==
    IF i > Len(wds) THEN state
    ELSE process_withdrawals(process_withdrawal(state, wds[i]), wds, i + 1)

\* ------------------------------------------------------------------- state
VARIABLES
    blocks,            \* chain.blocks
    heap,              \* the State objects, by reference
    chain_state,       \* chain.state: a reference into heap
    state_history,     \* _state_history: block number -> reference into heap
    pending,           \* _pending_block
    transactions_map,  \* _transactions_map: tx hash -> record
    receipts_map,      \* _receipts_map: tx hash -> record
    account_keys,      \* _account_keys (addresses whose key is held)
    now,               \* int(time.time())
    aux,               \* how many of the capped calls (MaxAux) were made
    json_tx,           \* the mapping a client hands to sign_transaction
    other,             \* a second EELSBackend's own attributes, <<>> if none
    rpc                \* a call of a py-evm serializer, then its result

vars == <<blocks, heap, chain_state, state_history, pending, transactions_map,
          receipts_map, account_keys, now, aux, json_tx, other, rpc>>

\* The engine as one record, so that a handler can call another.
Engine ==
    [blocks |-> blocks, heap |-> heap, chain_state |-> chain_state,
     state_history |-> state_history, pending |-> pending,
     transactions_map |-> transactions_map, receipts_map |-> receipts_map,
     account_keys |-> account_keys]

latest_block(e) == e.blocks[Len(e.blocks)]
LiveState(e) == e.heap[e.chain_state]

\* A reference no live name holds; objects no name holds are dropped.
Reachable(e) == {e.chain_state} \cup {e.state_history[n] : n \in DOMAIN e.state_history}
Collect(e) == [e EXCEPT !.heap = [r \in Reachable(e) |-> e.heap[r]]]
NewRef(h) == CHOOSE r \in 0..Cardinality(DOMAIN h) : r \notin DOMAIN h

\* _generate_state_snapshot(): a new State object holding copies of the live
\* tries. Returns the heap with the copy in it and the copy's reference.
_generate_state_snapshot(e) ==
    LET r == NewRef(e.heap)
    IN  [heap |-> Put(e.heap, r, LiveState(e)), ref |-> r]

\* _max_available_gas(): what the head block left of its gas limit.
_max_available_gas(e) ==
    latest_block(e).header.gas_limit - latest_block(e).header.gas_used

\* _check_transaction(tx, gas_available): fork.check_transaction against
\* the live state, whichever state the caller executes on.
_check_transaction(e, tx, gas_available) ==
    check_transaction(LiveState(e), tx, gas_available)

\* serialize_pending_receipt(backend, tx, process_transaction_return, index,
\* ...): the receipt of a transaction the body has run, not yet in a block.
\* The status is 1 when process_transaction reported no error, which is the
\* case of every plain value transfer that ran. contract_address is stored
\* as it is handed in.
serialize_pending_receipt(tx, index, contract_address) ==
    [transaction_index |-> index, block_number |-> None,
     block_hash |-> ZERO_HASH32, state_root |-> ZERO_HASH32, status |-> 1,
     contract_address |-> contract_address]

\* _extract_contract_address(pre_state, post_state): the first address, in
\* the order of post_state's trie, that is not in pre_state's trie and holds
\* code; None when there is none. post_keys lists the addresses of
\* post_state's trie in insertion order from the first one the body added
\* (those before it are the addresses of the live state, all in pre_state).
_extract_contract_address(pre_state, post_state, post_keys) ==
    LET created == SelectSeq(post_keys,
                      LAMBDA a : ~pre_state[a].exists /\ post_state[a].code # "")
    IN  IF created = <<>> THEN NoAddress ELSE Head(created)

\* ------------------------------------------------------------ block bodies
\* The loop of _internal_apply_body_validation over the buffered
\* transactions, on the scratch copy acc.state. For transaction i:
\*   - synthetic_tx_environment runs _check_transaction, which checks the
\*     transaction against self.chain.state (the live state, `live`), not
\*     against the scratch copy; a failure is caught and the transaction is
\*     left out;
\*   - process_transaction then changes the scratch copy in place;
\*   - the contract address of the receipt is extracted from pre_state, a
\*     copy of the live state, and post_state, the scratch copy;
\*   - blob_gas_used is increased and, when it passes the ceiling, a
\*     ValidationError is raised and caught: the transaction is left out of
\*     the tries, after it has changed the scratch copy and blob_gas_used;
\*   - otherwise the transaction enters the transactions trie under its
\*     index and gets a pending receipt.
\* A debit below zero in process_transaction is no EthereumException and is
\* not caught: acc.error.
RECURSIVE apply_body_loop(_, _, _, _)
apply_body_loop(live, txs, i, acc) ==
    IF i > Len(txs) \/ acc.error THEN acc
    ELSE
      LET tx == txs[i] IN
      IF ~check_transaction(live, tx, acc.max_available_gas)
      THEN apply_body_loop(live, txs, i + 1, acc)
      ELSE IF Underflows(acc.state, tx)
      THEN [acc EXCEPT !.error = TRUE]
      ELSE
        LET post == process_transaction(acc.state, tx)
            keys == acc.post_keys \o
                      (IF acc.state[Target(tx)].exists THEN <<>> ELSE <<Target(tx)>>)
            contract_address == _extract_contract_address(live, post, keys)
            blob == acc.blob_gas_used + calculate_total_blob_gas(tx)
            ran  == [acc EXCEPT !.state = post, !.blob_gas_used = blob,
                                !.post_keys = keys]
        IN  IF blob > MAX_BLOB_GAS_PER_BLOCK
            THEN apply_body_loop(live, txs, i + 1, ran)
            ELSE apply_body_loop(live, txs, i + 1,
                    [ran EXCEPT
                       !.block_gas_used = @ + TransferGas,
                       !.transactions_trie = @ \cup {<<i - 1, tx>>},
                       !.receipts_map = Put(@, _get_tx_hash(tx),
                           serialize_pending_receipt(tx, i - 1,
                                                     contract_address))])

\* _internal_apply_body_validation(): the body applied to a scratch copy of
\* the live state; yields the roots the header is given.
_internal_apply_body_validation(e) ==
    LET acc == apply_body_loop(LiveState(e), e.pending.transactions, 1,
                  [state |-> LiveState(e), blob_gas_used |-> 0,
                   block_gas_used |-> 0,
                   max_available_gas |-> _max_available_gas(e),
                   transactions_trie |-> {}, receipts_map |-> <<>>,
                   post_keys |-> <<>>, error |-> FALSE])
        after_wd == process_withdrawals(acc.state, e.pending.withdrawals, 1)
    IN  [error |-> acc.error,
         receipts_map |-> acc.receipts_map,
         blob_gas_used |-> acc.blob_gas_used,
         block_gas_used |-> acc.block_gas_used,
         state_root |-> state_root(after_wd),
         tx_root |-> root(acc.transactions_trie)]

\* The transactions of a block as fork.apply_body runs them inside
\* fork.state_transition: each is checked against the state as it stands,
\* then changes chain.state in place; a failed check raises InvalidBlock and
\* what was changed stays changed.
RECURSIVE fork_apply_body(_, _, _)
fork_apply_body(txs, i, acc) ==
    IF i > Len(txs) \/ ~acc.ok THEN acc
    ELSE
      LET tx == txs[i] IN
      IF ~check_transaction(acc.state, tx, acc.gas_available)
      THEN [acc EXCEPT !.ok = FALSE]
      ELSE fork_apply_body(txs, i + 1,
              [state |-> process_transaction(acc.state, tx),
               gas_available |-> acc.gas_available - TransferGas,
               blob_gas_used |-> acc.blob_gas_used + calculate_total_blob_gas(tx),
               transactions_trie |-> acc.transactions_trie \cup {<<i - 1, tx>>},
               ok |-> TRUE])

\* fork.validate_header(header, parent_header)
validate_header(header, parent) ==
    /\ header.timestamp > parent.timestamp
    /\ header.number = parent.number + 1
    /\ header.parent_hash = compute_header_hash(parent)

\* fork.state_transition(self.chain, block): validates the header against
\* the head, applies the body to chain.state in place (the blob total is
\* held against the ceiling once every transaction has run, the withdrawals
\* come after that), compares what it computed with the header and appends
\* the block. Any failure raises InvalidBlock; the block is then not
\* appended.
state_transition(e, block) ==
    IF ~validate_header(block.header, latest_block(e).header)
    THEN [e |-> e, ok |-> FALSE]
    ELSE
      LET acc == fork_apply_body(block.transactions, 1,
                    [state |-> LiveState(e), blob_gas_used |-> 0,
                     gas_available |-> block.header.gas_limit,
                     transactions_trie |-> {}, ok |-> TRUE])
          body_ok == acc.ok /\ acc.blob_gas_used <= MAX_BLOB_GAS_PER_BLOCK
          post == IF body_ok
                  THEN process_withdrawals(acc.state, block.withdrawals, 1)
                  ELSE acc.state
          e1 == [e EXCEPT !.heap[e.chain_state] = post]
          agree == /\ body_ok
                   /\ block.header.gas_limit - acc.gas_available = block.header.gas_used
                   /\ root(acc.transactions_trie) = block.header.transactions_root
                   /\ state_root(post) = block.header.state_root
                   /\ acc.blob_gas_used = block.header.blob_gas_used
      IN  IF agree
          THEN [e |-> [e1 EXCEPT !.blocks = Append(@, block)], ok |-> TRUE]
          ELSE [e |-> e1, ok |-> FALSE]

\* The loop of _mine_pending_block that back-fills the records of the
\* block's transactions. self._transactions_map[tx_hash] and
\* apply_body_output["receipts_map"][tx_hash] are plain dict lookups: a
\* missing key raises KeyError and ends the loop where it stands.
RECURSIVE update_records(_, _, _, _)
update_records(acc, block, body_receipts, i) ==
    IF i > Len(block.transactions) \/ acc.error THEN acc
    ELSE
      LET tx_hash == _get_tx_hash(block.transactions[i])
          where == [block_number |-> block.header.number,
                    block_hash |-> compute_header_hash(block.header),
                    transaction_index |-> i - 1]
      IN  IF tx_hash \notin DOMAIN acc.transactions_map
          THEN [acc EXCEPT !.error = TRUE]
          ELSE
            LET txm == Put(acc.transactions_map, tx_hash, where)
            IN  IF tx_hash \notin DOMAIN body_receipts
                THEN [acc EXCEPT !.transactions_map = txm, !.error = TRUE]
                ELSE update_records(
                       [acc EXCEPT
                          !.transactions_map = txm,
                          !.receipts_map = Put(@, tx_hash,
                              [body_receipts[tx_hash] EXCEPT
                                 !.block_number = where.block_number,
                                 !.block_hash = where.block_hash,
                                 !.transaction_index = where.transaction_index,
                                 !.state_root = block.header.state_root])],
                       block, body_receipts, i + 1)

\* _pending_block = None, the class attribute a new instance starts with.
NoPendingBlock ==
    [header |-> [number |-> None], transactions |-> <<>>, withdrawals |-> <<>>]

\* A pending block that is opened whether or not the one before it was
\* mined.
_build_new_pending_block_unguarded(e) ==
    [e |-> [e EXCEPT !.pending =
                [header |-> [number |-> latest_block(e).header.number + 1,
                             gas_limit |-> latest_block(e).header.gas_limit,
                             parent_hash |-> compute_header_hash(latest_block(e).header),
                             timestamp |-> None],
                 transactions |-> <<>>,
                 withdrawals |-> <<>>]],
     status |-> "ok"]

\* A pending block that is opened with the transactions and withdrawals of
\* the one before it.
_build_new_pending_block_keeps_body(e) ==
    IF /\ e.pending # NoPendingBlock
       /\ latest_block(e).header.number # e.pending.header.number
    THEN [e |-> e, status |-> "ValidationError"]
    ELSE [e |-> [e EXCEPT !.pending =
                    [header |-> [number |-> latest_block(e).header.number + 1,
                                 gas_limit |-> latest_block(e).header.gas_limit,
                                 parent_hash |-> compute_header_hash(latest_block(e).header),
                                 timestamp |-> None],
                     transactions |-> e.pending.transactions,
                     withdrawals |-> e.pending.withdrawals]],
          status |-> "ok"]

\* _build_new_pending_block()
_build_new_pending_block(e) ==
    IF /\ e.pending # NoPendingBlock
       /\ latest_block(e).header.number # e.pending.header.number
    THEN [e |-> e, status |-> "ValidationError"]
    ELSE [e |-> [e EXCEPT !.pending =
                    [header |-> [number |-> latest_block(e).header.number + 1,
                                 gas_limit |-> latest_block(e).header.gas_limit,
                                 parent_hash |-> compute_header_hash(latest_block(e).header),
                                 timestamp |-> None],
                     transactions |-> <<>>,
                     withdrawals |-> <<>>]],
          status |-> "ok"]

\* _mine_pending_block(), in the order of its statements. Each step is given
\* what the steps before it computed.

\* The timestamp, set on the pending header unless time_travel has set it.
MineTimestamp(e, time) ==
    IF e.pending.header.timestamp # None THEN e.pending.header.timestamp
    ELSE IF latest_block(e).header.timestamp >= time
    THEN latest_block(e).header.timestamp + 1
    ELSE time

\* The block built from the pending block and the output of the body.
MineBlock(e, body) ==
    [header |-> [number |-> e.pending.header.number,
                 gas_limit |-> e.pending.header.gas_limit,
                 gas_used |-> body.block_gas_used,
                 parent_hash |-> e.pending.header.parent_hash,
                 timestamp |-> e.pending.header.timestamp,
                 state_root |-> body.state_root,
                 transactions_root |-> body.tx_root,
                 blob_gas_used |-> body.blob_gas_used],
     transactions |-> e.pending.transactions,
     withdrawals |-> e.pending.withdrawals]

\* self._state_history[blocknum] = self._generate_state_snapshot()
MineRecordSnapshot(e, blocknum, snap) ==
    [e |-> [e EXCEPT !.heap = snap.heap,
                     !.state_history = Put(@, blocknum, snap.ref)],
     status |-> "ok"]

\* A commit that keeps the transaction records and forgets the receipts.
MineRecordsWithoutReceipts(e, block, rec) ==
    IF rec.error
    THEN [e |-> [e EXCEPT !.transactions_map = rec.transactions_map],
          status |-> "KeyError"]
    ELSE MineRecordSnapshot(
            [e EXCEPT !.transactions_map = rec.transactions_map],
            block.header.number,
            _generate_state_snapshot(e))

\* The records back-filled; a KeyError leaves what was written so far.
MineRecords(e, block, rec) ==
    IF rec.error
    THEN [e |-> [e EXCEPT !.transactions_map = rec.transactions_map,
                          !.receipts_map = rec.receipts_map],
          status |-> "KeyError"]
    ELSE MineRecordSnapshot(
            [e EXCEPT !.transactions_map = rec.transactions_map,
                      !.receipts_map = rec.receipts_map],
            block.header.number,
            _generate_state_snapshot(e))

\* After fork.state_transition: the two assertions, then the records.
MineCommit(st, block, body) ==
    IF ~st.ok THEN [e |-> st.e, status |-> "InvalidBlock"]
    ELSE IF state_root(LiveState(st.e)) # block.header.state_root
    THEN [e |-> st.e, status |-> "AssertionError"]
    ELSE MineRecords(st.e, block,
            update_records([transactions_map |-> st.e.transactions_map,
                            receipts_map |-> st.e.receipts_map,
                            error |-> FALSE],
                           block, body.receipts_map, 1))

MineTransition(e, block, body) == MineCommit(state_transition(e, block), block, body)

MineBody(e, body) ==
    IF body.error THEN [e |-> e, status |-> "OverflowError"]
    ELSE MineTransition(e, MineBlock(e, body), body)

MineApply(e) == MineBody(e, _internal_apply_body_validation(e))

\* _mine_pending_block(): returns the engine and how the call ended.
_mine_pending_block(e, time) ==
    MineApply([e EXCEPT !.pending.header.timestamp = MineTimestamp(e, time)])

\* mine_blocks(num_blocks): the generator run to its end by @to_tuple; an
\* exception in a round ends the call and the hashes yielded so far are lost.
RECURSIVE mine_blocks(_, _, _, _)

MineYield(b, num_blocks, time, hashes) ==
    IF b.status # "ok" THEN [e |-> b.e, status |-> b.status, ret |-> <<>>]
    ELSE mine_blocks(b.e, num_blocks - 1, time,
            Append(hashes, compute_header_hash(latest_block(b.e).header)))

MineRound(m, num_blocks, time, hashes) ==
    IF m.status # "ok" THEN [e |-> m.e, status |-> m.status, ret |-> <<>>]
    ELSE MineYield(_build_new_pending_block(m.e), num_blocks, time, hashes)

mine_blocks(e, num_blocks, time, hashes) ==
    IF num_blocks = 0 THEN [e |-> e, status |-> "ok", ret |-> hashes]
    ELSE MineRound(_mine_pending_block(e, time), num_blocks, time, hashes)

\* ----------------------------------------------------------------- genesis
\* _generate_genesis_state(): every default account funded; nothing else.
_generate_genesis_state ==
    [a \in Address |->
        IF a \in DefaultAccounts THEN _get_default_account_state(InitialBalance)
        ELSE EMPTY_ACCOUNT]

\* _generate_genesis_block(): every root of the genesis header, the state
\* root included, is ZERO_HASH32.
_generate_genesis_block(time) ==
    [header |-> [number |-> 0,
                 gas_limit |-> BlockGasLimit,
                 gas_used |-> 0,
                 parent_hash |-> ZERO_HASH32,
                 timestamp |-> time,
                 state_root |-> ZERO_HASH32,
                 transactions_root |-> ZERO_HASH32,
                 blob_gas_used |-> 0],
     transactions |-> <<>>,
     withdrawals |-> <<>>]

\* A reset that replaces the chain and the maps but goes on with the live
\* state as it is.
reset_to_genesis_keeps_state(e, time) ==
    LET e1 == [e EXCEPT !.account_keys = @ \cup DefaultAccounts,
                        !.transactions_map = <<>>,
                        !.receipts_map = <<>>,
                        !.blocks = <<_generate_genesis_block(time)>>]
        snap == _generate_state_snapshot(e1)
        e2 == [e1 EXCEPT !.heap = snap.heap,
                         !.state_history = Put(@, 0, snap.ref)]
    IN  _build_new_pending_block(e2)

\* reset_to_genesis() on an engine that already has a pending block. The
\* maps and the chain are replaced, the genesis snapshot is stored under 0
\* in _state_history (a dict that is never emptied), and then
\* _build_new_pending_block() is called.
reset_to_genesis(e, time) ==
    LET r == NewRef(e.heap)
        e1 == [e EXCEPT !.account_keys = @ \cup DefaultAccounts,
                        !.transactions_map = <<>>,
                        !.receipts_map = <<>>,
                        !.blocks = <<_generate_genesis_block(time)>>,
                        !.heap = Put(@, r, _generate_genesis_state),
                        !.chain_state = r]
        snap == _generate_state_snapshot(e1)
        e2 == [e1 EXCEPT !.heap = snap.heap,
                         !.state_history = Put(@, 0, snap.ref)]
    IN  _build_new_pending_block(e2)

\* -------------------------------------------------------- snapshot, revert
take_snapshot(e) == latest_block(e).header.number

\* A revert that cuts the chain back to the genesis block before it looks
\* the number up.
revert_to_snapshot_cuts_first(e, block_number) ==
    IF block_number \notin DOMAIN e.state_history
    THEN [e |-> [e EXCEPT !.blocks = SubSeq(@, 1, 1)], status |-> "ValidationError"]
    ELSE [e |-> [e EXCEPT
                    !.chain_state = e.state_history[block_number],
                    !.blocks = SubSeq(@, 1, Min2(block_number + 1, Len(@)))],
          status |-> "ok"]

revert_to_snapshot(e, block_number) ==
    IF block_number \notin DOMAIN e.state_history
    THEN [e |-> e, status |-> "ValidationError"]
    ELSE [e |-> [e EXCEPT
                    !.chain_state = e.state_history[block_number],
                    !.blocks = SubSeq(@, 1, Min2(block_number + 1, Len(@)))],
          status |-> "ok"]

\* ---------------------------------------------------------------- accounts
get_accounts(e) == {a \in Address : LiveState(e)[a].exists}
\* get_nonce(account, block_number) and get_balance(account, block_number)
\* read chain.state; block_number is not used.
get_nonce(e, account, block_number) == LiveState(e)[account].nonce
get_balance(e, account, block_number) == LiveState(e)[account].balance

\* ------------------------------------------------------------- chain data
\* get_last_256_block_hashes(chain): the parent hash of each of the most
\* recent blocks of the chain (chain.blocks[-255:] in the library, the last
\* RecentBlocks here), then the hash of its last block.
get_last_256_block_hashes(chain_blocks) ==
    LET recent_blocks == SubSeq(chain_blocks,
                                Len(chain_blocks) - Min2(RecentBlocks, Len(chain_blocks)) + 1,
                                Len(chain_blocks))
    IN  [i \in 1..Len(recent_blocks) |-> recent_blocks[i].header.parent_hash]
            \o <<compute_header_hash(chain_blocks[Len(chain_blocks)].header)>>

\* A lookup that trusts _state_history: every number a snapshot is kept
\* for is answered with the block at its place in the chain, or the head.
get_block_by_number_from_history(e, block_number) ==
    IF block_number \in DOMAIN e.state_history
    THEN [status |-> "ok", block |-> e.blocks[Min2(block_number + 1, Len(e.blocks))]]
    ELSE [status |-> "BlockNotFound"]

\* get_block_by_number(block_number), the branch for an integer: the loop
\* runs over all of chain.blocks without a break, so of the blocks carrying
\* the number the one nearest the genesis is returned.
get_block_by_number(e, block_number) ==
    LET found == {i \in 1..Len(e.blocks) : e.blocks[i].header.number = block_number} IN
    IF found = {} THEN [status |-> "BlockNotFound"]
    ELSE [status |-> "ok",
          block |-> e.blocks[CHOOSE i \in found : \A j \in found : i <= j]]

\* get_block_by_hash(block_hash): the hashes of get_last_256_block_hashes
\* are scanned in order, entries equal to ZERO_HASH32 are skipped, and for
\* the first entry equal to block_hash, at the zero-based place i, the block
\* chain.blocks[i - 1] is taken (the last block for i = 0); when its header
\* hash is not block_hash, ValueError is raised.
get_block_by_hash(e, block_hash) ==
    LET hashes == get_last_256_block_hashes(e.blocks)
        found == {j \in 1..Len(hashes) :
                    hashes[j] # ZERO_HASH32 /\ hashes[j] = block_hash}
    IN  IF found = {} THEN [status |-> "BlockNotFound"]
        ELSE LET i == (CHOOSE j \in found : \A k \in found : j <= k) - 1
                 block == IF i = 0 THEN e.blocks[Len(e.blocks)] ELSE e.blocks[i]
             IN  IF block_hash # compute_header_hash(block.header)
                 THEN [status |-> "ValueError"]
                 ELSE [status |-> "ok", block |-> block]

\* get_transaction_by_hash(transaction_hash)
get_transaction_by_hash(e, transaction_hash) ==
    IF transaction_hash \in DOMAIN e.transactions_map
    THEN [status |-> "ok", record |-> e.transactions_map[transaction_hash]]
    ELSE [status |-> "TransactionNotFound"]

\* add_account(private_key): the key is kept and the default account is
\* written at its address in chain.state.
add_account(e, address) ==
    [e EXCEPT !.account_keys = @ \cup {address},
              !.heap[e.chain_state][address] = _get_default_account_state(0)]

time_travel(e, to_timestamp) ==
    [e EXCEPT !.pending.header.timestamp = to_timestamp]

\* ----------------------------------------------------------------- signing
\* hex(n), kept apart from the integer it is made from.
hex(n) == <<"0x", n>>

\* json_tx.pop(k, None)
WithoutKey(m, k) == [x \in DOMAIN m \ {k} |-> m[x]]

\* A signing that leaves the y_parity entry in a legacy mapping.
sign_transaction_keeps_y_parity(json_tx_in, sig) ==
    LET protected == IF "protected" \in DOMAIN json_tx_in THEN json_tx_in["protected"]
                     ELSE TRUE
        blank == Put(Put(Put(Put(json_tx_in, "r", hex(0)), "s", hex(0)),
                         "v", hex(0)), "y_parity", hex(0))
        v_addend == IF json_tx_in["type"] # "legacy" THEN 0
                    ELSE IF protected THEN 37 ELSE 27
        signed == Put(Put(Put(blank, "r", hex(sig.r)), "s", hex(sig.s)),
                      "v", hex(sig.y + v_addend))
    IN  IF json_tx_in["type"] \notin {"legacy", "access_list", "fee_market", "blob"}
        THEN [json_tx |-> blank, status |-> "ValidationError"]
        ELSE IF v_addend = 0
        THEN [json_tx |-> Put(signed, "y_parity", signed["v"]), status |-> "ok"]
        ELSE [json_tx |-> signed, status |-> "ok"]

\* sign_transaction(json_tx, private_key). The mapping is changed in place
\* and returned. Its entry "type" stands for the fields by which
\* TransactionLoad tells the variants apart. sig is what secp256k1_sign returns for the signing hash and
\* the key: r, s and the recovery id y.
\*   - r, s, v and y_parity are first set to "0x0" (they stay so when the
\*     variant is not recognised and ValidationError is raised);
\*   - a legacy transaction loses y_parity and gets v = y + 37 when
\*     protected (the default) and y + 27 otherwise;
\*   - an access-list, fee-market or blob transaction gets v = y and
\*     y_parity = v.
sign_transaction(json_tx_in, sig) ==
    LET protected == IF "protected" \in DOMAIN json_tx_in THEN json_tx_in["protected"]
                     ELSE TRUE
        blank == Put(Put(Put(Put(json_tx_in, "r", hex(0)), "s", hex(0)),
                         "v", hex(0)), "y_parity", hex(0))
        legacy == json_tx_in["type"] = "legacy"
        v_addend == IF ~legacy THEN 0 ELSE IF protected THEN 37 ELSE 27
        popped == IF legacy THEN WithoutKey(blank, "y_parity") ELSE blank
        signed == Put(Put(Put(popped, "r", hex(sig.r)), "s", hex(sig.s)),
                      "v", hex(sig.y + v_addend))
    IN  IF json_tx_in["type"] \notin {"legacy", "access_list", "fee_market", "blob"}
        THEN [json_tx |-> blank, status |-> "ValidationError"]
        ELSE IF v_addend = 0
        THEN [json_tx |-> Put(signed, "y_parity", signed["v"]), status |-> "ok"]
        ELSE [json_tx |-> signed, status |-> "ok"]

\* ------------------------------------------------------------------ intake
\* The record stored in _transactions_map when a transaction is accepted.
ProvisionalRecord(e, index) ==
    [block_number |-> e.pending.header.number,
     block_hash |-> ZERO_HASH32,
     transaction_index |-> index]

\* send_raw_transaction(raw_transaction)
send_raw_transaction(e, tx) ==
    IF ~_check_transaction(e, tx, latest_block(e).header.gas_limit)
    THEN [e |-> e, status |-> "InvalidBlock"]
    ELSE [e |-> [e EXCEPT
                    !.transactions_map = Put(@, _get_tx_hash(tx),
                        ProvisionalRecord(e, Len(e.pending.transactions))),
                    !.pending.transactions = Append(@, tx)],
          status |-> "ok"]

\* send_signed_transaction(signed_json_tx)
send_signed_transaction(e, tx) ==
    IF ~_check_transaction(e, tx, latest_block(e).header.gas_limit)
    THEN [e |-> e, status |-> "InvalidBlock"]
    ELSE [e |-> [e EXCEPT
                    !.transactions_map = Put(@, _get_tx_hash(tx),
                        ProvisionalRecord(e, None)),
                    !.pending.transactions = Append(@, tx)],
          status |-> "ok"]

\* _get_normalized_and_signed_evm_transaction(transaction): the sender must
\* be an account of the live state; its key is looked up in a dict; the nonce
\* is the live nonce of the sender.
_get_normalized_and_signed_evm_transaction(e, from, to, value) ==
    IF from \notin get_accounts(e) THEN [status |-> "ValidationError"]
    ELSE IF from \notin e.account_keys THEN [status |-> "KeyError"]
    ELSE [status |-> "ok", tx |-> MakeTx(from, get_nonce(e, from, LATEST), to, value, 0)]

\* send_transaction(transaction), for a transaction with a recipient
send_transaction(e, from, to, value) ==
    LET signed == _get_normalized_and_signed_evm_transaction(e, from, to, value) IN
    IF signed.status # "ok" THEN [e |-> e, status |-> signed.status]
    ELSE IF ~_check_transaction(e, signed.tx, latest_block(e).header.gas_limit)
    THEN [e |-> e, status |-> "InvalidBlock"]
    ELSE [e |-> [e EXCEPT
                    !.pending.transactions = Append(@, signed.tx),
                    !.transactions_map = Put(@, _get_tx_hash(signed.tx),
                        ProvisionalRecord(e, Len(e.pending.transactions) + 1))],
          status |-> "ok"]

\* apply_withdrawals(withdrawals_list), for a list that passes validation
apply_withdrawals(e, withdrawals_list, time) ==
    mine_blocks([e EXCEPT !.pending.withdrawals = @ \o withdrawals_list],
                1, time, <<>>)

\* ----------------------------------------------------- synthetic execution
\* synthetic_tx_environment(tx, state=..., block_number=...): the
\* environment a transaction is executed in. state is <<>> for None and
\* <<s>> for a scratch State s of the caller; block_number is None or an
\* integer.
\*   - For no block number and for the head's number the environment is
\*     built on the pending block: its state is the caller's, or a fresh
\*     copy of the live state; its time is the pending header's timestamp
\*     entry, which is None until the block is mined or time_travel is called.
\*   - For any other number the state is the object stored in _state_history
\*     itself and the header is the last one of chain.blocks[:number + 1];
\*     that header is copied into a dict with the key "time", so the lookup
\*     of "timestamp" falls back to the current time.
\*   - The environment's number is `block_number or head.number`.
synthetic_tx_environment(e, state, block_number, time) ==
    IF block_number \in {None, latest_block(e).header.number}
    THEN IF block_number = None /\ state = <<>>
         THEN [status |-> "ValidationError"]
         ELSE LET snap == IF state = <<>> THEN _generate_state_snapshot(e)
                          ELSE [heap |-> Put(e.heap, NewRef(e.heap), state[1]),
                                ref |-> NewRef(e.heap)]
              IN  [status |-> "ok", heap |-> snap.heap, state |-> snap.ref,
                   gas_available |-> _max_available_gas(e),
                   block_hashes |-> get_last_256_block_hashes(e.blocks),
                   number |-> latest_block(e).header.number,
                   time |-> e.pending.header.timestamp]
    ELSE IF state # <<>> THEN [status |-> "ValidationError"]
    ELSE IF block_number \notin DOMAIN e.state_history
    THEN [status |-> "ValidationError"]
    ELSE LET chain_blocks == SubSeq(e.blocks, 1, Min2(block_number + 1, Len(e.blocks)))
             header == chain_blocks[Len(chain_blocks)].header
         IN  [status |-> "ok", heap |-> e.heap,
              state |-> e.state_history[block_number],
              gas_available |-> header.gas_limit - header.gas_used,
              block_hashes |-> get_last_256_block_hashes(chain_blocks),
              number |-> IF block_number # 0 THEN block_number
                         ELSE latest_block(e).header.number,
              time |-> time]

\* _get_synthetic_env_and_tx_for_block_number(transaction, block_number)
_get_synthetic_env_and_tx_for_block_number(e, from, to, value, block_number, time) ==
    LET number == IF block_number = LATEST THEN latest_block(e).header.number
                  ELSE block_number
        signed == _get_normalized_and_signed_evm_transaction(e, from, to, value)
        env == synthetic_tx_environment(e, <<>>, number, time)
    IN  IF signed.status # "ok" THEN [status |-> signed.status]
        ELSE IF env.status # "ok" THEN [status |-> env.status]
        ELSE IF ~_check_transaction(e, signed.tx, env.gas_available)
                \/ ~_check_transaction(e, signed.tx, latest_block(e).header.gas_limit)
        THEN [status |-> "TransactionFailed"]
        ELSE [status |-> "ok", tx |-> signed.tx, heap |-> env.heap, state |-> env.state]

\* estimate_gas(transaction, block_number): process_transaction on the
\* environment's state.
estimate_gas(e, from, to, value, block_number, time) ==
    LET s == _get_synthetic_env_and_tx_for_block_number(e, from, to, value, block_number, time) IN
    IF s.status # "ok" THEN [e |-> e, status |-> s.status]
    ELSE IF Underflows(s.heap[s.state], s.tx) THEN [e |-> e, status |-> "OverflowError"]
    ELSE [e |-> [e EXCEPT !.heap =
                    [s.heap EXCEPT ![s.state] = process_transaction(@, s.tx)]],
          status |-> "ok"]

\* What running the code at the target can end with: evm.error and
\* evm.output of the Evm that process_message returns. The code of the
\* accounts is not part of the state, so the result is an input of call.
EvmResults ==
    {[error |-> "none", output |-> ""],
     [error |-> "Revert", output |-> ""],
     [error |-> "Revert", output |-> "reason"],
     [error |-> "OutOfGasError", output |-> ""]}

\* A call whose failed execution is not rolled back: the value stays moved
\* in the environment's state.
call_without_rollback(e, from, to, value, block_number, evm, time) ==
    LET s == _get_synthetic_env_and_tx_for_block_number(e, from, to, value, block_number, time) IN
    IF s.status # "ok"
    THEN [e |-> e, status |-> s.status,
          msg |-> IF s.status = "TransactionFailed" THEN "Transaction failed to execute."
                  ELSE ""]
    ELSE IF s.heap[s.state][from].balance < value
    THEN [e |-> e, status |-> "AssertionError", msg |-> ""]
    ELSE [e |-> [e EXCEPT !.heap =
                    [s.heap EXCEPT ![s.state] = process_message(@, s.tx)]],
          status |-> IF evm.error = "none" THEN "ok" ELSE "TransactionFailed",
          msg |-> IF evm.error = "none" THEN ""
                  ELSE IF evm.error # "Revert" THEN evm.error
                  ELSE IF evm.output = "" THEN "Function has been reverted."
                  ELSE evm.output]

\* call(transaction, block_number): process_message on the environment's
\* state. process_message moves the value and runs the code inside a state
\* transaction, which it rolls back when the code ends with an error; the
\* error is raised as TransactionFailed with the message chosen from it.
call(e, from, to, value, block_number, evm, time) ==
    LET s == _get_synthetic_env_and_tx_for_block_number(e, from, to, value, block_number, time) IN
    IF s.status # "ok"
    THEN [e |-> e, status |-> s.status,
          msg |-> IF s.status = "TransactionFailed" THEN "Transaction failed to execute."
                  ELSE ""]
    ELSE IF s.heap[s.state][from].balance < value
    THEN [e |-> e, status |-> "AssertionError", msg |-> ""]
    ELSE IF evm.error # "none"
    THEN [e |-> [e EXCEPT !.heap = s.heap],
          status |-> "TransactionFailed",
          msg |-> IF evm.error # "Revert" THEN evm.error
                  ELSE IF evm.output = "" THEN "Function has been reverted."
                  ELSE evm.output]
    ELSE [e |-> [e EXCEPT !.heap =
                    [s.heap EXCEPT ![s.state] = process_message(@, s.tx)]],
          status |-> "ok", msg |-> ""]

\* ------------------------------------------------------------ state machine
\* References are opaque: after each call the objects are renamed by the
\* first name that holds them (chain.state, then _state_history in key
\* order) and objects no name holds are dropped.
Canon(e) ==
    LET c == Collect(e)
        name(n) == IF c.state_history[n] = c.chain_state THEN 0 ELSE n + 1
    IN  [c EXCEPT
           !.heap = [r \in {0} \cup {name(n) : n \in DOMAIN c.state_history} |->
                        IF r = 0 THEN c.heap[c.chain_state]
                        ELSE c.heap[c.state_history[r - 1]]],
           !.chain_state = 0,
           !.state_history = [n \in DOMAIN c.state_history |-> name(n)]]

Becomes(e) ==
    LET c == Canon(e) IN
    /\ blocks' = c.blocks
    /\ heap' = c.heap
    /\ chain_state' = c.chain_state
    /\ state_history' = c.state_history
    /\ pending' = c.pending
    /\ transactions_map' = c.transactions_map
    /\ receipts_map' = c.receipts_map
    /\ account_keys' = c.account_keys
    /\ UNCHANGED <<json_tx, other, rpc>>

\* A capped call: at most MaxAux of them in a run.
Capped == aux < MaxAux /\ aux' = aux + 1 /\ UNCHANGED now

\* The state after EELSBackend(): reset_to_genesis() with no pending block.
EngineInit ==
    /\ now = 1
    /\ blocks = <<_generate_genesis_block(1)>>
    /\ heap = [r \in {0, 1} |-> _generate_genesis_state]
    /\ chain_state = 0
    /\ state_history = [n \in {0} |-> 1]
    /\ pending = [header |-> [number |-> 1,
                              gas_limit |-> BlockGasLimit,
                              parent_hash |-> compute_header_hash(_generate_genesis_block(1).header),
                              timestamp |-> None],
                  transactions |-> <<>>,
                  withdrawals |-> <<>>]
    /\ transactions_map = <<>>
    /\ receipts_map = <<>>
    /\ account_keys = DefaultAccounts
    /\ aux = 0
    /\ other = <<>>

\* No mapping is being signed and no serializer is called.
Init == EngineInit /\ json_tx = <<>> /\ rpc = <<>>

HeadNumber == latest_block(Engine).header.number
BlockNumberArgs == {LATEST, 0}
TimeTravelTargets == {MaxClock + MaxHead + 2}
WithdrawalLists == {<<[address |-> "a3", amount |-> 1]>>}
Senders == {"a1", "a3"}
NewAccounts == {"a3"}
Recipients == {"a2"}
SignedTransactions == {MakeTx("a1", 0, "a2", 1, 0)}
RawTransactions == {MakeTx("a1", 0, "a2", 1, BlobCount)}

Tick ==
    /\ now < MaxClock
    /\ now' = now + 1
    /\ UNCHANGED <<blocks, heap, chain_state, state_history, pending,
                   transactions_map, receipts_map, account_keys, aux, json_tx, other,
                   rpc>>

ResetToGenesis ==
    LET r == reset_to_genesis(Engine, now) IN Becomes(r.e)
    /\ Capped

MineBlocks ==
    \E n \in 1..MaxMine :
        /\ HeadNumber + n <= MaxHead
        /\ LET r == mine_blocks(Engine, n, now, <<>>) IN Becomes(r.e)
        /\ UNCHANGED <<now, aux>>

ApplyWithdrawals ==
    \E wds \in WithdrawalLists :
        /\ HeadNumber < MaxHead
        /\ Len(pending.withdrawals) + Len(wds) <= MaxPendingWds
        /\ LET r == apply_withdrawals(Engine, wds, now) IN Becomes(r.e)
        /\ Capped

TimeTravel ==
    \E t \in TimeTravelTargets :
        /\ Becomes(time_travel(Engine, t))
        /\ Capped

TakeSnapshot ==
    /\ take_snapshot(Engine) = HeadNumber
    /\ UNCHANGED <<blocks, heap, chain_state, state_history, pending,
                   transactions_map, receipts_map, account_keys, now, aux, json_tx,
                   other, rpc>>

RevertToSnapshot ==
    \E k \in 0..(MaxHead + 1) :
        LET r == revert_to_snapshot(Engine, k) IN Becomes(r.e)
        /\ UNCHANGED <<now, aux>>

AddAccount ==
    \E a \in NewAccounts :
        /\ Becomes(add_account(Engine, a))
        /\ Capped

SendTransaction ==
    \E from \in Senders, to \in Recipients :
        /\ from # to
        /\ Len(pending.transactions) < MaxPendingTxs
        /\ LET r == send_transaction(Engine, from, to, 1) IN Becomes(r.e)
        /\ UNCHANGED <<now, aux>>

SendSignedTransaction ==
    \E tx \in SignedTransactions :
        /\ Len(pending.transactions) < MaxPendingTxs
        /\ LET r == send_signed_transaction(Engine, tx) IN Becomes(r.e)
        /\ UNCHANGED <<now, aux>>

SendRawTransaction ==
    \E tx \in RawTransactions :
        /\ Len(pending.transactions) < MaxPendingTxs
        /\ LET r == send_raw_transaction(Engine, tx) IN Becomes(r.e)
        /\ UNCHANGED <<now, aux>>

Call ==
    \E from \in {"a1"}, to \in {"a2"}, bn \in BlockNumberArgs, evm \in EvmResults :
        /\ LET r == call(Engine, from, to, 1, bn, evm, now) IN Becomes(r.e)
        /\ Capped

EstimateGas ==
    \E from \in {"a1"}, to \in {"a2"}, bn \in BlockNumberArgs :
        /\ LET r == estimate_gas(Engine, from, to, 1, bn, now) IN Becomes(r.e)
        /\ Capped

Next ==
    \/ Tick
    \/ ResetToGenesis
    \/ MineBlocks
    \/ ApplyWithdrawals
    \/ TimeTravel
    \/ TakeSnapshot
    \/ RevertToSnapshot
    \/ AddAccount
    \/ SendTransaction
    \/ SendSignedTransaction
    \/ SendRawTransaction
    \/ Call
    \/ EstimateGas

Spec == Init /\ [][Next]_vars

\* ----------------------------------------------------- signing of mappings
\* sign_transaction on its own: a client holds a mapping of one of the
\* transaction variants, with or without the protected flag and a y_parity
\* entry, and has it signed, any number of times.
Variants == {"legacy", "access_list", "fee_market", "blob", "set_code"}
Signatures == {[r |-> r, s |-> 1, y |-> y] : r \in 1..2, y \in 0..1}

Mappings ==
    {[type |-> t, value |-> v] : t \in Variants, v \in 0..1}
SignInputs ==
    UNION {{m,
            Put(m, "protected", TRUE),
            Put(m, "protected", FALSE),
            Put(m, "y_parity", hex(1)),
            Put(Put(m, "protected", TRUE), "y_parity", hex(1)),
            Put(Put(m, "protected", FALSE), "y_parity", hex(1))} : m \in Mappings}

InitSign == EngineInit /\ json_tx \in SignInputs /\ rpc = <<>>

SignTransaction ==
    \E sig \in Signatures :
        /\ json_tx' = sign_transaction(json_tx, sig).json_tx
        /\ UNCHANGED <<blocks, heap, chain_state, state_history, pending,
                       transactions_map, receipts_map, account_keys, now, aux, other,
                       rpc>>

NextSign == SignTransaction

SpecSign == InitSign /\ [][NextSign]_vars

\* ------------------------------------------- transfers between two accounts
\* The engine driven by submissions and mining alone, with both default
\* accounts sending and with a signed transaction whose gas limit is the
\* whole block gas limit.
TransferSenders == {"a1", "a2"}
GreedyTransactions ==
    {[MakeTx(a, 0, "a3", 1, 0) EXCEPT !.gas = BlockGasLimit] : a \in {"a1"}}

Transfer ==
    \E from \in TransferSenders, to \in TransferSenders :
        /\ from # to
        /\ Len(pending.transactions) < MaxPendingTxs
        /\ LET r == send_transaction(Engine, from, to, 1) IN Becomes(r.e)
        /\ UNCHANGED <<now, aux>>

SendGreedyTransaction ==
    \E tx \in GreedyTransactions :
        /\ Len(pending.transactions) < MaxPendingTxs
        /\ LET r == send_signed_transaction(Engine, tx) IN Becomes(r.e)
        /\ UNCHANGED <<now, aux>>

NextTransfers ==
    \/ Transfer
    \/ SendGreedyTransaction
    \/ SendSignedTransaction
    \/ SendRawTransaction
    \/ MineBlocks

SpecTransfers == Init /\ [][NextTransfers]_vars

\* ------------------------------------------------- contract creations
\* Two senders, each with the creation of a contract as its first
\* transaction, and transfers between them: creations and transfers share
\* blocks.
CreateTransactions == {MakeTx(a, 0, CREATE, 0, 0) : a \in TransferSenders}

SendCreateTransaction ==
    \E tx \in CreateTransactions :
        /\ Len(pending.transactions) < MaxPendingTxs
        /\ LET r == send_signed_transaction(Engine, tx) IN Becomes(r.e)
        /\ UNCHANGED <<now, aux>>

NextCreate ==
    \/ SendCreateTransaction
    \/ Transfer
    \/ MineBlocks

SpecCreate == Init /\ [][NextCreate]_vars

\* ------------------------------------------------------------ two instances
\* _account_keys and _state_history are objects of the class EELSBackend:
\* add_account, _generate_genesis_state and the two writers of
\* _state_history change them in place, so every instance reads and writes
\* the same list and the same dict, and the State objects of the dict are on
\* one heap. chain, _pending_block, _transactions_map and _receipts_map are
\* assigned on the instance by reset_to_genesis and are the instance's own.
Own(e) ==
    [blocks |-> e.blocks, chain_state |-> e.chain_state, pending |-> e.pending,
     transactions_map |-> e.transactions_map, receipts_map |-> e.receipts_map]

\* An instance: its own attributes and the class-level objects as class holds
\* them.
WithClass(own, class) ==
    [blocks |-> own.blocks, heap |-> class.heap, chain_state |-> own.chain_state,
     state_history |-> class.state_history, pending |-> own.pending,
     transactions_map |-> own.transactions_map,
     receipts_map |-> own.receipts_map, account_keys |-> class.account_keys]

Second == WithClass(other[1], Engine)
Instance(i) == IF i = 1 THEN Engine ELSE Second
Instances == IF other = <<>> THEN {1} ELSE {1, 2}

\* EELSBackend(): reset_to_genesis() on an instance that has no chain and no
\* pending block yet.
EELSBackend(class, time) ==
    reset_to_genesis(
        WithClass([blocks |-> <<>>, chain_state |-> None,
                   pending |-> NoPendingBlock,
                   transactions_map |-> <<>>, receipts_map |-> <<>>], class),
        time)

\* The renaming of Canon for two instances: chain.state of the first, then
\* chain.state of the second, then _state_history in key order.
CanonBoth(first, second) ==
    LET hist == first.state_history
        held == {first.chain_state} \cup {second[j].chain_state : j \in DOMAIN second}
                  \cup {hist[n] : n \in DOMAIN hist}
        name(r) == IF r = first.chain_state THEN 0
                   ELSE IF second # <<>> /\ r = second[1].chain_state THEN 1
                   ELSE 2 + (CHOOSE n \in DOMAIN hist : hist[n] = r)
    IN  [first |-> [first EXCEPT
                      !.heap = [x \in {name(r) : r \in held} |->
                                   first.heap[CHOOSE r \in held : name(r) = x]],
                      !.chain_state = 0,
                      !.state_history = [n \in DOMAIN hist |-> name(hist[n])]],
         other |-> [j \in DOMAIN second |->
                       [second[j] EXCEPT !.chain_state = name(@)]]]

\* Instance i has become e: the class-level objects are as e holds them, the
\* other instance keeps its own attributes.
InstanceBecomes(i, e) ==
    LET c == IF i = 1 THEN CanonBoth(e, other)
             ELSE CanonBoth(WithClass(Own(Engine), e), <<Own(e)>>)
    IN  /\ blocks' = c.first.blocks
        /\ heap' = c.first.heap
        /\ chain_state' = c.first.chain_state
        /\ state_history' = c.first.state_history
        /\ pending' = c.first.pending
        /\ transactions_map' = c.first.transactions_map
        /\ receipts_map' = c.first.receipts_map
        /\ account_keys' = c.first.account_keys
        /\ other' = c.other
        /\ UNCHANGED <<json_tx, rpc>>

\* A call on one of the instances: at most MaxInstanceCalls of them in a run.
InstanceCall == aux < MaxInstanceCalls /\ aux' = aux + 1 /\ UNCHANGED now

Construct ==
    /\ other = <<>>
    /\ InstanceBecomes(2, EELSBackend(Engine, now).e)
    /\ InstanceCall

InstanceSendTransaction ==
    \E i \in Instances :
        /\ Len(Instance(i).pending.transactions) < MaxPendingTxs
        /\ InstanceBecomes(i, send_transaction(Instance(i), "a1", "a2", 1).e)
        /\ InstanceCall

InstanceMineBlocks ==
    \E i \in Instances :
        /\ latest_block(Instance(i)).header.number < MaxHead
        /\ InstanceBecomes(i, mine_blocks(Instance(i), 1, now, <<>>).e)
        /\ InstanceCall

InstanceRevertToSnapshot ==
    \E i \in Instances : \E n \in 0..MaxHead :
        /\ InstanceBecomes(i, revert_to_snapshot(Instance(i), n).e)
        /\ InstanceCall

InstanceAddAccount ==
    \E i \in Instances : \E a \in NewAccounts :
        /\ InstanceBecomes(i, add_account(Instance(i), a))
        /\ InstanceCall

InstanceResetToGenesis ==
    \E i \in Instances :
        /\ InstanceBecomes(i, reset_to_genesis(Instance(i), now).e)
        /\ InstanceCall

NextInstances ==
    \/ Construct
    \/ InstanceSendTransaction
    \/ InstanceMineBlocks
    \/ InstanceRevertToSnapshot
    \/ InstanceAddAccount
    \/ InstanceResetToGenesis

SpecInstances == Init /\ [][NextInstances]_vars

\* ------------------------------------------------------ py-evm serializers
\* _extract_transaction_type(transaction): the type id of a typed
\* transaction in hex, "0x0" for a legacy one (type_id 0 here).
_extract_transaction_type(transaction) == hex(transaction.type_id)

\* int(txn_type, 16)
int16(txn_type) == txn_type[2]

\* A _calculate_effective_gas_price that leaves out the cap of max_fee_per_gas.
_calculate_effective_gas_price_uncapped(transaction, block, transaction_type) ==
    IF int16(transaction_type) >= 2
    THEN transaction.max_priority_fee_per_gas + block.header.base_fee_per_gas
    ELSE transaction.gas_price

\* _calculate_effective_gas_price(transaction, block, transaction_type)
_calculate_effective_gas_price(transaction, block, transaction_type) ==
    IF int16(transaction_type) >= 2
    THEN Min2(transaction.max_fee_per_gas,
              transaction.max_priority_fee_per_gas + block.header.base_fee_per_gas)
    ELSE transaction.gas_price

\* serialize_transaction(block, transaction, transaction_index, is_pending):
\* the common parameters merged with those of the transaction's type. The
\* fields that are copied from the transaction as they are (hash, from, to,
\* value, gas, data, chain_id, access_list, blob fields, signature) are
\* left out but for the nonce.
serialize_transaction(block, transaction, transaction_index, is_pending) ==
    LET txn_type == _extract_transaction_type(transaction)
        common_transaction_params ==
            [type |-> txn_type,
             nonce |-> transaction.nonce,
             block_hash |-> IF is_pending THEN None ELSE block.hash,
             block_number |-> IF is_pending THEN None ELSE block.number,
             transaction_index |-> IF is_pending THEN None ELSE transaction_index]
    IN  IF int16(txn_type) \in {0, 1}
        THEN Put(common_transaction_params, "gas_price", transaction.gas_price)
        ELSE Put(Put(Put(common_transaction_params,
                 "max_fee_per_gas", transaction.max_fee_per_gas),
                 "max_priority_fee_per_gas", transaction.max_priority_fee_per_gas),
                 "gas_price",
                 IF is_pending THEN transaction.max_fee_per_gas
                 ELSE _calculate_effective_gas_price(transaction, block, txn_type))

\* The calls of serialize_transaction: a block with its base fee, a
\* transaction of each type (0 legacy, 1 access list, 2 dynamic fee, 3 blob)
\* and fees on both sides of the cap.
MaxFee == 3
SerializedBlocks ==
    {[hash |-> h, number |-> 1, header |-> [base_fee_per_gas |-> b]] :
        h \in {7}, b \in 0..(MaxFee - 1)}
SerializedTransactions ==
    {[type_id |-> t, nonce |-> 0, gas_price |-> g] : t \in {0, 1}, g \in 1..MaxFee}
    \cup {[type_id |-> t, nonce |-> 0, max_fee_per_gas |-> f,
           max_priority_fee_per_gas |-> p] :
              t \in {2, 3}, f \in 1..MaxFee, p \in 0..(MaxFee - 1)}
SerializerCalls ==
    {[block |-> b, transaction |-> t, transaction_index |-> i, is_pending |-> q] :
        b \in SerializedBlocks, t \in SerializedTransactions,
        i \in {0, 1}, q \in BOOLEAN}

InitSerialize == EngineInit /\ json_tx = <<>> /\ rpc \in {<<c>> : c \in SerializerCalls}

SerializeTransaction ==
    /\ Len(rpc) = 1
    /\ rpc' = Append(rpc, serialize_transaction(rpc[1].block, rpc[1].transaction,
                                                rpc[1].transaction_index,
                                                rpc[1].is_pending))
    /\ UNCHANGED <<blocks, heap, chain_state, state_history, pending,
                   transactions_map, receipts_map, account_keys, now, aux,
                   json_tx, other>>

NextSerialize == SerializeTransaction

SpecSerialize == InitSerialize /\ [][NextSerialize]_vars

\* ================================================================== claims
\* What the documentation of the engine asserts, stated over the model. A
\* statement about what a call does is stated of the call made in the state
\* at hand: the handler applied to Engine.

\* The root of the state as it was right after block k was mined: for a
\* mined block the root its header carries (_mine_pending_block asserts the
\* two equal), for the genesis block the root of the genesis state.
StateRootAfterBlock(k) ==
    IF k = 0 THEN state_root(_generate_genesis_state)
    ELSE blocks[k + 1].header.state_root

\* The buffered transactions the body of the pending block keeps (those
\* given a receipt), in order, and the positions of those it leaves out.
KeptByBody(e) ==
    SelectSeq(e.pending.transactions,
              LAMBDA tx : _get_tx_hash(tx) \in
                   DOMAIN _internal_apply_body_validation(e).receipts_map)
LeftOutByBody(e) ==
    {i \in 1..Len(e.pending.transactions) :
        _get_tx_hash(e.pending.transactions[i]) \notin
            DOMAIN _internal_apply_body_validation(e).receipts_map}
NothingBuffered ==
    /\ pending.transactions = <<>>
    /\ pending.withdrawals = <<>>
    /\ pending.header.timestamp = None

\* C1: in every reachable state the pending block's number is the head's
\* number plus one.
C1_PendingIsHeadPlusOne == pending.header.number = HeadNumber + 1

\* C2: in every reachable state the keys of the snapshot index are exactly
\* 0..head.number.
C2_HistoryKeysAreChainNumbers == DOMAIN state_history = 0..HeadNumber

\* C3: for every k <= head.number, revert_to_snapshot(k) leaves the head at
\* k, the chain cut to its first k+1 blocks, and the live state equal to the
\* state as it was right after block k was mined.
C3_RevertRestoresBlockState ==
    \A k \in 0..HeadNumber :
        LET r == revert_to_snapshot(Engine, k) IN
        /\ r.status = "ok"
        /\ latest_block(r.e).header.number = k
        /\ r.e.blocks = SubSeq(blocks, 1, k + 1)
        /\ state_root(LiveState(r.e)) = StateRootAfterBlock(k)

\* C4: from any reachable state, a revert to an earlier block included,
\* mine_blocks(n) succeeds, raises the head's number by n, returns the n
\* hashes of the new blocks in order and leaves the chain contiguous. Stated
\* for the states in which nothing is buffered in the pending block, where
\* no buffered transaction or withdrawal stands in the way.
C4_MineSucceedsFromAnyState ==
    NothingBuffered =>
      \A n \in 1..MaxMine :
        LET r == mine_blocks(Engine, n, now, <<>>) IN
        /\ r.status = "ok"
        /\ latest_block(r.e).header.number = HeadNumber + n
        /\ Len(r.ret) = n
        /\ \A i \in 1..n :
              /\ HeadNumber + i + 1 \in DOMAIN r.e.blocks
              /\ r.ret[i] = compute_header_hash(r.e.blocks[HeadNumber + i + 1].header)
        /\ \A i \in DOMAIN r.e.blocks : r.e.blocks[i].header.number = i - 1

\* C5: a snapshot recorded for block n stays the same state for as long as
\* its entry exists: no step changes it in place or records another state
\* under n.
C5_SnapshotsAreImmutable ==
    [][\A n \in DOMAIN state_history \cap DOMAIN state_history' :
          heap'[state_history'[n]] = heap[state_history[n]]]_vars

\* C6: the root of the live state is the state_root of the head's header, in
\* every reachable state, the genesis state included.
C6_LiveRootIsHeadRoot ==
    state_root(LiveState(Engine)) = latest_block(Engine).header.state_root

\* C7: reset_to_genesis() called in any reachable state completes without
\* an error and leaves the genesis block alone in the chain, entry 0 alone in
\* the snapshot index, both maps empty and an empty pending block numbered 1.
C7_ResetRestoresGenesis ==
    LET r == reset_to_genesis(Engine, now) IN
    /\ r.status = "ok"
    /\ r.e.blocks = <<_generate_genesis_block(now)>>
    /\ DOMAIN r.e.state_history = {0}
    /\ r.e.transactions_map = <<>>
    /\ r.e.receipts_map = <<>>
    /\ r.e.pending.header.number = 1
    /\ r.e.pending.transactions = <<>>
    /\ r.e.pending.withdrawals = <<>>

\* C8: call and estimate_gas, whatever block number they are given, change
\* neither the chain, nor the live state, nor the pending block, nor the
\* transaction and receipt maps.
C8_SyntheticCallsChangeNothing ==
    \A bn \in BlockNumberArgs :
      \A r \in {[e |-> call(Engine, "a1", "a2", 1, bn, evm, now).e] : evm \in EvmResults}
                \cup {[e |-> estimate_gas(Engine, "a1", "a2", 1, bn, now).e]} :
        /\ r.e.blocks = blocks
        /\ LiveState(r.e) = LiveState(Engine)
        /\ r.e.pending = pending
        /\ r.e.transactions_map = transactions_map
        /\ r.e.receipts_map = receipts_map

\* C9: when the body leaves one buffered transaction out for a recoverable
\* failure, the mine still succeeds: the new block holds the other buffered
\* transactions and not the failing one, the failing one gets no receipt, and
\* a fresh pending block is opened.
C9_FailingTransactionIsSkipped ==
    (/\ pending.header.number = HeadNumber + 1
     /\ ~_internal_apply_body_validation(Engine).error
     /\ Cardinality(LeftOutByBody(Engine)) = 1) =>
        LET r == mine_blocks(Engine, 1, now, <<>>) IN
        /\ r.status = "ok"
        /\ Len(r.e.blocks) = Len(blocks) + 1
        /\ latest_block(r.e).transactions = KeptByBody(Engine)
        /\ \A i \in LeftOutByBody(Engine) :
              _get_tx_hash(pending.transactions[i]) \notin DOMAIN r.e.receipts_map
        /\ r.e.pending.header.number = latest_block(r.e).header.number + 1
        /\ r.e.pending.transactions = <<>>

\* C10: a transaction left out during mining has no effect on the state the
\* block commits: after the mine its sender's nonce and balance are what
\* they would be had the transaction never been buffered.
C10_SkippedTransactionLeavesNoTrace ==
    (/\ pending.header.number = HeadNumber + 1
     /\ ~_internal_apply_body_validation(Engine).error
     /\ LeftOutByBody(Engine) # {}) =>
        LET with == mine_blocks(Engine, 1, now, <<>>)
            without == mine_blocks(
                          [Engine EXCEPT !.pending.transactions = KeptByBody(Engine)],
                          1, now, <<>>)
        IN  \A i \in LeftOutByBody(Engine) :
              LET sender == pending.transactions[i].sender IN
              /\ LiveState(with.e)[sender].nonce = LiveState(without.e)[sender].nonce
              /\ LiveState(with.e)[sender].balance = LiveState(without.e)[sender].balance

\* The snapshot index by value: the state recorded under each number.
RecordedStates(e) == [n \in DOMAIN e.state_history |-> e.heap[e.state_history[n]]]

\* C11: when mining a block fails, nothing is committed: the chain, the live
\* state, the snapshot index and the transaction and receipt maps are as
\* they were before the call.
C11_FailedMineCommitsNothing ==
    LET r == mine_blocks(Engine, 1, now, <<>>) IN
    r.status # "ok" =>
        /\ r.e.blocks = blocks
        /\ LiveState(r.e) = LiveState(Engine)
        /\ RecordedStates(r.e) = RecordedStates(Engine)
        /\ r.e.transactions_map = transactions_map
        /\ r.e.receipts_map = receipts_map

\* C12: revert_to_snapshot of a number with no recorded snapshot fails with
\* ValidationError and leaves the chain, the live state, the snapshot index
\* and the pending block as they were.
C12_RevertOfUnknownNumberChangesNothing ==
    \A k \in 0..(MaxHead + 1) :
        k \notin DOMAIN state_history =>
            LET r == revert_to_snapshot(Engine, k) IN
            /\ r.status = "ValidationError"
            /\ r.e.blocks = blocks
            /\ LiveState(r.e) = LiveState(Engine)
            /\ RecordedStates(r.e) = RecordedStates(Engine)
            /\ r.e.pending = pending

\* C12 happens: a chain with a mined block and a number without a snapshot,
\* whose revert is refused.
C12_Witness ==
    /\ HeadNumber >= 1
    /\ \E k \in 0..(MaxHead + 1) :
          /\ k \notin DOMAIN state_history
          /\ revert_to_snapshot(Engine, k).status = "ValidationError"

\* C13: once revert_to_snapshot(k) has succeeded the snapshot index holds no
\* entry for a number above k, so that a revert to such a number fails with
\* ValidationError until that block is mined again.
C13_RevertTruncatesHistory ==
    \A k \in DOMAIN state_history :
        LET r == revert_to_snapshot(Engine, k) IN
        r.status = "ok" =>
            /\ \A j \in DOMAIN r.e.state_history : j <= k
            /\ \A j \in (k + 1)..(MaxHead + 1) :
                  revert_to_snapshot(r.e, j).status = "ValidationError"

\* How many of the transactions txs were sent by sender.
SentBy(sender, txs) == Cardinality({i \in 1..Len(txs) : txs[i].sender = sender})

\* The single-transfer scenario: the engine as a completed reset_to_genesis
\* leaves it (the genesis block, the genesis state, a pending block opened
\* on that genesis block), with one transfer of 1 from a1 to a2 buffered and
\* recorded.
SingleTransfer == MakeTx("a1", 0, "a2", 1, 0)
SingleTransferScenario ==
    /\ Len(blocks) = 1
    /\ LiveState(Engine) = _generate_genesis_state
    /\ pending.header.number = 1
    /\ pending.header.parent_hash = compute_header_hash(blocks[1].header)
    /\ pending.withdrawals = <<>>
    /\ pending.transactions = <<SingleTransfer>>
    /\ _get_tx_hash(SingleTransfer) \in DOMAIN transactions_map

C15_QueriesReadRecordedState ==
    \A k \in DOMAIN state_history : \A a \in Address :
        /\ get_nonce(Engine, a, k) = heap[state_history[k]][a].nonce
        /\ get_balance(Engine, a, k) = heap[state_history[k]][a].balance

\* The submissions offered to the three send entry points, each as the
\* outcome of its call in the state at hand.
Submissions ==
    {send_transaction(Engine, from, to, 1) :
        from \in Senders \cup TransferSenders, to \in Recipients}
    \cup {send_signed_transaction(Engine, tx) :
            tx \in SignedTransactions \cup GreedyTransactions}
    \cup {send_raw_transaction(Engine, tx) : tx \in RawTransactions}

\* C16: a submission that send_transaction, send_signed_transaction or
\* send_raw_transaction rejects fails with ValidationError and leaves the
\* pending block's transactions and the transaction map as they were.
C16_RejectedSubmissionIsValidationError ==
    \A r \in Submissions :
        r.status # "ok" =>
            /\ r.status = "ValidationError"
            /\ r.e.pending.transactions = pending.transactions
            /\ r.e.transactions_map = transactions_map

\* The gas limits of the transactions txs, summed.
RECURSIVE GasClaimed(_)
GasClaimed(txs) ==
    IF txs = <<>> THEN 0 ELSE Head(txs).gas + GasClaimed(Tail(txs))

\* C17: a submission is held against what the pending block has left of its
\* gas limit, so the gas limits of the buffered transactions never sum to
\* more than the pending block's gas limit.
C17_BufferedGasWithinLimit ==
    GasClaimed(pending.transactions) <= pending.header.gas_limit

\* The blob gas of the transactions txs, summed.
RECURSIVE BlobGasOf(_)
BlobGasOf(txs) ==
    IF txs = <<>> THEN 0
    ELSE calculate_total_blob_gas(Head(txs)) + BlobGasOf(Tail(txs))

\* C18: the blob_gas_used of every mined block's header is the blob gas of
\* the transactions in the block and is within MAX_BLOB_GAS_PER_BLOCK; the
\* blob_gas_used the body computes for the header of the block being mined
\* counts the transactions it keeps and not one it leaves out for exceeding
\* the ceiling.
C18_BlobGasUsedCountsIncludedOnly ==
    /\ \A i \in 2..Len(blocks) :
          /\ blocks[i].header.blob_gas_used = BlobGasOf(blocks[i].transactions)
          /\ blocks[i].header.blob_gas_used <= MAX_BLOB_GAS_PER_BLOCK
    /\ LET body == _internal_apply_body_validation(Engine) IN
       ~body.error =>
          /\ body.blob_gas_used = BlobGasOf(KeptByBody(Engine))
          /\ body.blob_gas_used <= MAX_BLOB_GAS_PER_BLOCK

\* Where a record places its transaction.
Placement(record) ==
    [block_number |-> record.block_number,
     block_hash |-> record.block_hash,
     transaction_index |-> record.transaction_index]

C20_NoReceiptBeforeMining ==
    \A i \in 1..Len(pending.transactions) :
        LET tx_hash == _get_tx_hash(pending.transactions[i]) IN
        /\ tx_hash \in DOMAIN transactions_map
        /\ tx_hash \notin DOMAIN receipts_map

\* The transactions the clients of the two specifications can submit.
Submittable ==
    {MakeTx(s, n, t, 1, b) : s \in Address, n \in 0..MaxHead, t \in Address,
                             b \in {0, BlobCount}} \cup GreedyTransactions

\* C21: get_block_by_number(n) for an integer n returns the block numbered n
\* when 0 <= n <= head.number and fails with BlockNotFound otherwise, also
\* for a number whose block revert_to_snapshot removed;
\* get_transaction_by_hash fails with TransactionNotFound for a hash that was
\* never accepted: a hash gets a record only in a step that puts its
\* transaction into the pending block, and a hash without a record is not
\* found.
C21_BlockLookup ==
    \A n \in (0 - 1)..(MaxHead + 2) :
        LET r == get_block_by_number(Engine, n) IN
        IF 0 <= n /\ n <= HeadNumber
        THEN r.status = "ok" /\ r.block.header.number = n /\ r.block = blocks[n + 1]
        ELSE r.status = "BlockNotFound"

C21_UnrecordedHashNotFound ==
    \A tx \in Submittable :
        _get_tx_hash(tx) \notin DOMAIN transactions_map
            => get_transaction_by_hash(Engine, _get_tx_hash(tx)).status = "TransactionNotFound"

C21_RecordOnlyOnAcceptance ==
    \A h \in DOMAIN transactions_map' \ DOMAIN transactions_map :
        \E i \in 1..Len(pending'.transactions) :
            /\ _get_tx_hash(pending'.transactions[i]) = h
            /\ i > Len(pending.transactions)

C22_UnknownSenderIsValidationError ==
    \A from \in Address \ account_keys : \A to \in Address \ {from} :
        send_transaction(Engine, from, to, 1).status = "ValidationError"

\* C23: apply_withdrawals(list) with a valid list mines exactly one block:
\* head.number grows by 1, the new head's withdrawals are exactly the list in
\* submission order, and each withdrawal's address is credited in the
\* committed state.
C23_WithdrawalsMineOneBlock ==
    \A wds \in WithdrawalLists :
        LET r == apply_withdrawals(Engine, wds, now) IN
        /\ r.status = "ok"
        /\ latest_block(r.e).header.number = HeadNumber + 1
        /\ latest_block(r.e).withdrawals = wds
        /\ \A i \in 1..Len(wds) :
            LiveState(r.e)[wds[i].address].balance
                >= LiveState(Engine)[wds[i].address].balance + wds[i].amount

\* The timestamps time_travel is asked for: before, at and after the head's.
TravelTargets == 0..(MaxClock + MaxHead + 2)

Max2(a, b) == IF a >= b THEN a ELSE b

\* The blocks a call appended to the chain of engine e, oldest first.
AppendedBlocks(e, after) ==
    [j \in 1..(Len(after.blocks) - Len(e.blocks)) |-> after.blocks[Len(e.blocks) + j]]

\* What the timestamps of the blocks appended by one mine_blocks call are
\* when the first of them was given the timestamp first: each later one is
\* the larger of its parent's timestamp plus one and the current time.
TimestampsFollow(e, after, first, time) ==
    LET new == AppendedBlocks(e, after) IN
    \A j \in 1..Len(new) :
        new[j].header.timestamp =
            IF j = 1 THEN first
            ELSE Max2(after.blocks[Len(e.blocks) + j - 1].header.timestamp + 1, time)

\* Whether the open pending block's timestamp was set by time_travel: the
\* targets of TimeTravel lie beyond every timestamp mining produces within
\* the bounds.
SetByTimeTravel == pending.header.timestamp \in TimeTravelTargets

\* C24: after time_travel(t) on the open pending block the next mined block's
\* header timestamp is exactly t; the pending block opened after that block
\* has no preset timestamp, so a later block mined without time_travel gets
\* the larger of its parent's timestamp plus one and the current time.
C24_TimeTravelSetsNextBlockOnly ==
    \A n \in 1..MaxMine : \A time \in now..(MaxClock + 1) :
        /\ \A t \in TravelTargets :
            LET r == mine_blocks(time_travel(Engine, t), n, time, <<>>) IN
            /\ TimestampsFollow(Engine, r.e, t, time)
            /\ r.status = "ok" => r.e.pending.header.timestamp = None
        /\ ~SetByTimeTravel =>
            LET r == mine_blocks(Engine, n, time, <<>>) IN
            /\ TimestampsFollow(Engine, r.e,
                    Max2(latest_block(Engine).header.timestamp + 1, time), time)
            /\ r.status = "ok" => r.e.pending.header.timestamp = None

\* C25: after reset_to_genesis the head is block 0 and every configured
\* initial account has nonce 0 and its configured balance, whatever the
\* engine held before the call.
C25_ResetGivesGenesisAccounts ==
    LET r == reset_to_genesis(Engine, now) IN
    /\ latest_block(r.e).header.number = 0
    /\ \A A \in DefaultAccounts :
        /\ get_nonce(r.e, A, LATEST) = 0
        /\ get_balance(r.e, A, LATEST) = InitialBalance

\* The head is past the genesis block and an initial account has sent a
\* transaction, so its nonce and balance are no longer the configured ones;
\* the reset brings them back.
C25_Witness ==
    /\ HeadNumber >= 1
    /\ \E A \in DefaultAccounts :
        /\ get_nonce(Engine, A, LATEST) > 0
        /\ get_balance(Engine, A, LATEST) < InitialBalance
        /\ get_nonce(reset_to_genesis(Engine, now).e, A, LATEST) = 0
        /\ get_balance(reset_to_genesis(Engine, now).e, A, LATEST) = InitialBalance

\* C26: when the code a call runs ends with an error, call fails with
\* TransactionFailed and nothing else: with the message "Function has been
\* reverted." for a revert with empty output, with the output for a revert
\* with output, with the error itself for any other error; and the engine is
\* as it was: chain, live and recorded states, pending block and both maps.
C26_CallErrorIsTransactionFailed ==
    \A bn \in BlockNumberArgs, evm \in EvmResults :
        LET r == call(Engine, "a1", "a2", 1, bn, evm, now)
            ran == call(Engine, "a1", "a2", 1, bn, [error |-> "none", output |-> ""], now)
        IN  (evm.error # "none" /\ ran.status = "ok") =>
                /\ r.status = "TransactionFailed"
                /\ r.msg = CASE evm.error = "Revert" /\ evm.output = "" ->
                                    "Function has been reverted."
                             [] evm.error = "Revert" /\ evm.output # "" -> evm.output
                             [] OTHER -> evm.error
                /\ Canon(r.e) = Canon(Engine)

\* A call pinned to block 0 while the head is past it, whose code would run
\* and reverts with empty output: the environment carries the State object
\* recorded for block 0.
C26_Witness ==
    /\ HeadNumber >= 1
    /\ call(Engine, "a1", "a2", 1, 0, [error |-> "none", output |-> ""], now).status = "ok"
    /\ call(Engine, "a1", "a2", 1, 0, [error |-> "Revert", output |-> ""], now).msg
            = "Function has been reverted."

\* The block numbers an environment is asked for: none, and every number
\* from the genesis block to one past MaxHead.
EnvBlockNumbers == {None} \cup 0..(MaxHead + 1)

\* C27: building an execution environment with both a scratch state of the
\* caller and an explicit block number fails with ValidationError, whatever
\* the number is, the head's included; with neither it fails with
\* ValidationError too.
C27_StateAndNumberExclude ==
    /\ \A k \in EnvBlockNumbers \ {None} :
        synthetic_tx_environment(Engine, <<LiveState(Engine)>>, k, now).status
            = "ValidationError"
    /\ synthetic_tx_environment(Engine, <<>>, None, now).status = "ValidationError"

\* C28: opening a new pending block while the current one has not been
\* mined (its number differs from the head's) fails with ValidationError and
\* leaves the engine, the pending block with its buffered transactions and
\* withdrawals included, as it was; right after the pending block was mined
\* the opening succeeds and gives an empty pending block numbered head + 1.
C28_PendingOpensOnlyAfterMining ==
    /\ HeadNumber # pending.header.number =>
        LET r == _build_new_pending_block(Engine) IN
        /\ r.status = "ValidationError"
        /\ r.e = Engine
    /\ LET m == _mine_pending_block(Engine, now) IN
       m.status = "ok" =>
        LET r == _build_new_pending_block(m.e) IN
        /\ r.status = "ok"
        /\ r.e.pending.header.number = latest_block(m.e).header.number + 1
        /\ r.e.pending.header.number = HeadNumber + 2
        /\ r.e.pending.transactions = <<>>
        /\ r.e.pending.withdrawals = <<>>

\* The pending block holds a transaction and has not been mined: opening
\* is refused; once it is mined, opening succeeds.
C28_Witness ==
    /\ pending.transactions # <<>>
    /\ HeadNumber # pending.header.number
    /\ _build_new_pending_block(Engine).status = "ValidationError"
    /\ _mine_pending_block(Engine, now).status = "ok"
    /\ _build_new_pending_block(_mine_pending_block(Engine, now).e).status = "ok"

\* C29: sign_transaction returns the mapping with r, s and v set; for a
\* legacy transaction v is the recovery id plus 37 when protected (the
\* default) and plus 27 when not, and y_parity is absent; for access-list,
\* fee-market and blob transactions v is the recovery id and y_parity
\* equals v; an unrecognised variant fails with ValidationError.
C29_SignatureFields ==
    \A sig \in Signatures :
        LET r == sign_transaction(json_tx, sig)
            protected == "protected" \notin DOMAIN json_tx \/ json_tx["protected"]
        IN  CASE json_tx["type"] = "legacy" ->
                    /\ r.status = "ok"
                    /\ r.json_tx["r"] = hex(sig.r) /\ r.json_tx["s"] = hex(sig.s)
                    /\ r.json_tx["v"] = hex(sig.y + (IF protected THEN 37 ELSE 27))
                    /\ "y_parity" \notin DOMAIN r.json_tx
              [] json_tx["type"] \in {"access_list", "fee_market", "blob"} ->
                    /\ r.status = "ok"
                    /\ r.json_tx["r"] = hex(sig.r) /\ r.json_tx["s"] = hex(sig.s)
                    /\ r.json_tx["v"] = hex(sig.y)
                    /\ r.json_tx["y_parity"] = r.json_tx["v"]
              [] OTHER -> r.status = "ValidationError"

\* A legacy mapping without the protected flag has been signed with
\* recovery id 1: v is 38 and there is no y_parity entry.
C29_Witness ==
    /\ json_tx["type"] = "legacy"
    /\ "protected" \notin DOMAIN json_tx
    /\ "v" \in DOMAIN json_tx
    /\ json_tx["v"] = hex(38)
    /\ "y_parity" \notin DOMAIN json_tx

\* C30: in historical mode, for every block number k below the head's, the
\* execution environment's block number is k, its timestamp is that of block
\* k's header, its state is the snapshot recorded for k and its block-hash
\* list is derived from blocks 0..k only.
C30_HistoricalEnvironment ==
    \A k \in 0..(HeadNumber - 1) :
        LET env == synthetic_tx_environment(Engine, <<>>, k, now) IN
        /\ env.status = "ok"
        /\ env.number = k
        /\ env.time = blocks[k + 1].header.timestamp
        /\ env.state = state_history[k]
        /\ env.block_hashes = get_last_256_block_hashes(SubSeq(blocks, 1, k + 1))

\* Hashes that belong to no block of the chain.
ForeignHashes ==
    {ZERO_HASH32, compute_header_hash(pending.header),
     compute_header_hash([latest_block(Engine).header EXCEPT !.timestamp = @ + 1])}

MinedNow == mine_blocks(Engine, 1, now, <<>>)
ReceiptsMinedNow ==
    {<<tx, MinedNow.e.receipts_map[_get_tx_hash(tx)]>> :
        tx \in {latest_block(MinedNow.e).transactions[i] :
                   i \in 1..Len(latest_block(MinedNow.e).transactions)}}

\* C32: in a mined block, a receipt's contract_address is non-null only for
\* a transaction that itself created a contract, and it is then the address
\* that transaction created, also when several transactions are mined in
\* the same block.
C32_ContractAddressOfCreator ==
    MinedNow.status = "ok" =>
        \A p \in ReceiptsMinedNow :
            p[2].contract_address # NoAddress =>
                /\ p[1].to = CREATE
                /\ p[2].contract_address =
                       compute_contract_address(p[1].sender, p[1].nonce)
\* C33: successive send_transaction calls from one sender, with no nonce
\* given and no mining in between, get consecutive nonces, and mining then
\* includes all of them.
C33_SuccessiveNonces ==
    \A from \in TransferSenders : \A to \in TransferSenders \ {from} :
      \A v1 \in 1..2 : \A v2 \in 1..2 :
        LET r1 == send_transaction(Engine, from, to, v1)
            r2 == send_transaction(r1.e, from, to, v2)
            n  == Len(r2.e.pending.transactions)
            tx1 == r2.e.pending.transactions[n - 1]
            tx2 == r2.e.pending.transactions[n]
            mined == mine_blocks(r2.e, 1, now, <<>>)
        IN  r1.status = "ok" /\ r2.status = "ok" =>
              /\ tx2.nonce = tx1.nonce + 1
              /\ mined.status = "ok"
              /\ \E i \in 1..Len(latest_block(mined.e).transactions) :
                    /\ latest_block(mined.e).transactions[i] = tx1
                    /\ latest_block(mined.e).transactions[i + 1] = tx2

\* A record carries a mined block number and block hash once the back-fill
\* of _mine_pending_block has written the hash of the block into it.
InChain(record) ==
    \E i \in 1..Len(blocks) :
        /\ blocks[i].header.number = record.block_number
        /\ compute_header_hash(blocks[i].header) = record.block_hash

\* C34: in every reachable state, every transaction record and every receipt
\* record that carries a mined block number and block hash refers to a block
\* that is in chain.blocks with that number and hash; records of blocks that
\* revert_to_snapshot removed do not stay retrievable as mined.
C34_MinedRecordsReferToChain ==
    /\ \A h \in DOMAIN transactions_map :
          transactions_map[h].block_hash # ZERO_HASH32 => InChain(transactions_map[h])
    /\ \A h \in DOMAIN receipts_map :
          receipts_map[h].block_hash # ZERO_HASH32 => InChain(receipts_map[h])

\* What is observed through an instance: the snapshot index with the states
\* it holds, the account keys, the chain with its live state, the pending
\* block and the two maps.
Observed(e) ==
    [snapshots |-> [n \in DOMAIN e.state_history |-> e.heap[e.state_history[n]]],
     account_keys |-> e.account_keys,
     blocks |-> e.blocks,
     state |-> LiveState(e),
     pending |-> e.pending,
     transactions_map |-> e.transactions_map,
     receipts_map |-> e.receipts_map]

\* The second instance after each of the operations, made on it now.
OperatedSecond ==
    {mine_blocks(Second, 1, now, <<>>).e,
     reset_to_genesis(Second, now).e} \cup
    {add_account(Second, a) : a \in NewAccounts} \cup
    {revert_to_snapshot(Second, n).e : n \in 0..MaxHead}

\* C35: instances are isolated: neither the construction of another instance
\* nor reset_to_genesis, mine_blocks, add_account or revert_to_snapshot on
\* another instance changes the snapshot index, the account keys, the chain,
\* the pending block or the maps observed through this instance.
C35_InstancesAreIsolated ==
    \A e2 \in (IF other = <<>> THEN {EELSBackend(Engine, now).e}
                ELSE OperatedSecond) :
        Observed(WithClass(Own(Engine), e2)) = Observed(Engine)
\* The places of the chain's blocks that hold a transaction.
Inclusions ==
    {<<i, j>> : i \in 1..Len(blocks), j \in 1..MaxPendingTxs} \cap
    {p \in (1..Len(blocks)) \X (1..MaxPendingTxs) :
        p[2] <= Len(blocks[p[1]].transactions)}

\* C36: a successful mine leaves a fresh pending block, with no transaction
\* and no withdrawal, so that whatever the sequence of operations an
\* accepted transaction is in at most one mined block.
C36_IncludedAtMostOnce ==
    /\ \A n \in 1..MaxMine :
          LET r == mine_blocks(Engine, n, now, <<>>) IN
          r.status = "ok" =>
              /\ r.e.pending.transactions = <<>>
              /\ r.e.pending.withdrawals = <<>>
    /\ \A p \in Inclusions : \A q \in Inclusions :
          blocks[p[1]].transactions[p[2]] = blocks[q[1]].transactions[q[2]] => p = q

\* Two blocks with a transaction each were mined one after the other and the
\* pending block that follows them is empty.
C36_Witness ==
    /\ Len(blocks) = 3
    /\ Len(blocks[2].transactions) = 1
    /\ Len(blocks[3].transactions) = 1
    /\ pending.header.number = 3
    /\ pending.transactions = <<>>
    /\ pending.withdrawals = <<>>

\* C37: add_account never alters an existing account: an address that is in
\* the live state keeps its balance, nonce and code; an address that is not
\* gets an account with balance 0, nonce 0 and empty code; no other account
\* changes.
C37_AddAccountKeepsExisting ==
    \A address \in Address :
        LET after == LiveState(add_account(Engine, address)) IN
        /\ after[address] = IF LiveState(Engine)[address].exists
                            THEN LiveState(Engine)[address]
                            ELSE _get_default_account_state(0)
        /\ \A a \in Address \ {address} : after[a] = LiveState(Engine)[a]

\* The index recorded for the transaction that the accepting call r appended
\* to the pending block, and the index it has once that block is mined.
RecordedIndex(r) ==
    r.e.transactions_map[_get_tx_hash(
        r.e.pending.transactions[Len(r.e.pending.transactions)])].transaction_index
MinedIndex(r) ==
    mine_blocks(r.e, 1, now, <<>>).e.transactions_map[_get_tx_hash(
        r.e.pending.transactions[Len(r.e.pending.transactions)])].transaction_index

\* C38: send_transaction and send_raw_transaction record the same provisional
\* index for an accepted transaction, its zero-based position in the pending
\* block's list (0 for the first one), and that is the transaction_index it
\* has when the block is mined.
C38_ProvisionalIndexIsPosition ==
    /\ \A from \in Senders : \A to \in Recipients :
          LET r == send_transaction(Engine, from, to, 1) IN
          r.status = "ok" =>
              /\ RecordedIndex(r) = Len(pending.transactions)
              /\ mine_blocks(r.e, 1, now, <<>>).status = "ok" =>
                    MinedIndex(r) = RecordedIndex(r)
    /\ \A tx \in RawTransactions \cup SignedTransactions :
          LET r == send_raw_transaction(Engine, tx) IN
          r.status = "ok" =>
              /\ RecordedIndex(r) = Len(pending.transactions)
              /\ mine_blocks(r.e, 1, now, <<>>).status = "ok" =>
                    MinedIndex(r) = RecordedIndex(r)

\* min(max_fee_per_gas, max_priority_fee_per_gas + base_fee_per_gas) for a
\* transaction of type 2 or more, gas_price for one of type 0 or 1.
EffectiveGasPrice(transaction, block) ==
    IF transaction.type_id < 2 THEN transaction.gas_price
    ELSE IF transaction.max_fee_per_gas <=
              transaction.max_priority_fee_per_gas + block.header.base_fee_per_gas
    THEN transaction.max_fee_per_gas
    ELSE transaction.max_priority_fee_per_gas + block.header.base_fee_per_gas

\* C39: in the py-evm serializers the effective gas price of a transaction
\* of type 2 or more is min(max_fee_per_gas, max_priority_fee_per_gas +
\* base_fee_per_gas) of its block and that of a type 0 or 1 transaction is
\* its gas_price; serialize_transaction reports max_fee_per_gas as gas_price
\* for a pending transaction of type 2 or more and the effective gas price
\* once it is mined, and reports block_hash, block_number and
\* transaction_index as null exactly when the transaction is pending.
C39_SerializedGasPriceAndPlace ==
    Len(rpc) = 2 =>
        LET c == rpc[1]
            r == rpc[2]
        IN  /\ _calculate_effective_gas_price(c.transaction, c.block,
                    _extract_transaction_type(c.transaction))
                  = EffectiveGasPrice(c.transaction, c.block)
            /\ r.gas_price =
                  IF c.transaction.type_id >= 2 /\ c.is_pending
                  THEN c.transaction.max_fee_per_gas
                  ELSE EffectiveGasPrice(c.transaction, c.block)
            /\ (r.block_hash = None) <=> c.is_pending
            /\ (r.block_number = None) <=> c.is_pending
            /\ (r.transaction_index = None) <=> c.is_pending
            /\ ~c.is_pending =>
                  /\ r.block_hash = c.block.hash
                  /\ r.block_number = c.block.number
                  /\ r.transaction_index = c.transaction_index

\* A mined dynamic fee transaction whose max_fee_per_gas is below the sum
\* of its priority fee and the base fee was serialized.
C39_Witness ==
    /\ Len(rpc) = 2
    /\ rpc[1].transaction.type_id = 2
    /\ ~rpc[1].is_pending
    /\ rpc[1].transaction.max_fee_per_gas <
          rpc[1].transaction.max_priority_fee_per_gas
            + rpc[1].block.header.base_fee_per_gas
    /\ rpc[2].gas_price = rpc[1].transaction.max_fee_per_gas
    /\ rpc[2].transaction_index = 1
====
